---- MODULE Spec2Model ----
(***************************************************************************)
(* node-mono-builder: the dependency graph built by parseGraph (graph.ts)  *)
(* and the two ordering operations order() and orderMultiple() (order.ts). *)
(*                                                                         *)
(* A project is identified by its name, a number 1..n; the projects Map is *)
(* a sequence of project records in insertion order.  Every JavaScript Set *)
(* and Map is a sequence without repetition, in insertion order.           *)
(***************************************************************************)
EXTENDS Integers, Sequences, FiniteSets, TLC

VARIABLES
    projects,            \* Map<string, T>: the graph, in insertion order
    pc,                  \* position of the running call
    op,                  \* which exported function was called
    id,                  \* order(): the id argument; orderMultiple(): the id of the forEach callback
    including,           \* order() arguments
    above,
    below,
    commandMap,          \* order(): Map<T, number>, project -> level
    stack,               \* order(): pending depthSearchTree calls, innermost first
    requestingProjects,  \* orderMultiple(): Set<T>
    missingProjects,     \* orderMultiple(): Set<T>
    resultSets,          \* orderMultiple(): Set<Set<T>>
    loopIndex,           \* orderMultiple(): loop counter
    result,              \* the returned Set<T>
    errorMessage,        \* what exitError printed
    exitCode,            \* process exit code
    modifier,            \* command(): InputCommand.modifier
    input,               \* runCommand(): isExplicit, projects, includeProject/Above/Below
    flags,               \* runCommand(): input.flags
    scriptName,          \* runCommand(): input.scriptName
    selectedProjects,    \* runCommand(): Set<ProjectContext>
    stats,               \* runCommand(): ProcessingStats
    additionalConsumers, \* runCommand(): Set<ProjectContext>
    executed             \* what executeForProject was called with, in order

\* the state of runCommand()
commandVars == <<modifier, input, flags, scriptName, selectedProjects, stats,
                 additionalConsumers, executed>>

vars == <<projects, pc, op, id, including, above, below, commandMap, stack,
          requestingProjects, missingProjects, resultSets, loopIndex, result,
          errorMessage, exitCode, commandVars>>

----------------------------------------------------------------------------
(* Bounds of the model *)

\* number of projects of a configuration
NumProjects == 3
\* number of dependency edges of a configuration
MaxEdges == 3
\* depth of recursion the runtime's call stack allows; a deeper call ends
\* the run with pc = "overflow"
MaxLevel == 6

(* Program constants *)
LOOP_SAFETY == 20

----------------------------------------------------------------------------
(* Sequences as insertion-ordered sets *)

Range(s) == {s[i] : i \in 1..Len(s)}

\* Set.prototype.add
SetAdd(s, x) == IF x \in Range(s) THEN s ELSE Append(s, x)

RECURSIVE SetAddAll(_, _)
SetAddAll(s, items) ==
    IF items = <<>> THEN s ELSE SetAddAll(SetAdd(s, Head(items)), Tail(items))

RECURSIVE Concat(_)
Concat(ss) == IF ss = <<>> THEN <<>> ELSE Head(ss) \o Concat(Tail(ss))

IsInjective(s) == \A i, j \in 1..Len(s) : s[i] = s[j] => i = j

\* Map.prototype.has / get / set / delete on a sequence of [project, level]
MapHas(map, p) == \E i \in 1..Len(map) : map[i].project = p

MapGet(map, p) == map[CHOOSE i \in 1..Len(map) : map[i].project = p].level

MapSet(map, p, l) ==
    IF MapHas(map, p)
    THEN [i \in 1..Len(map) |->
            IF map[i].project = p THEN [project |-> p, level |-> l] ELSE map[i]]
    ELSE Append(map, [project |-> p, level |-> l])

MapDelete(map, p) == SelectSeq(map, LAMBDA e : e.project # p)

----------------------------------------------------------------------------
(* graph.ts: parseGraph *)

Names(ps) == {ps[i].name : i \in 1..Len(ps)}

\* projects.get(id); only used where the id is present
Get(ps, name) == ps[CHOOSE i \in 1..Len(ps) : ps[i].name = name]

\* Array.prototype.sort on package names
RECURSIVE SortAscending(_)
SortAscending(S) ==
    IF S = {} THEN <<>>
    ELSE LET m == CHOOSE x \in S : \A y \in S : x <= y
         IN  <<m>> \o SortAscending(S \ {m})

\* a double link that adds the dependency and leaves the consumer out
DoubleLinkOneWay(ps, name, dependencyName) ==
    IF \E i \in 1..Len(ps) : ps[i].package = dependencyName
    THEN LET matched == (CHOOSE i \in 1..Len(ps) : ps[i].package = dependencyName)
             project == (CHOOSE i \in 1..Len(ps) : ps[i].name = name)
         IN  [ps EXCEPT ![project].dependencies = SetAdd(@, ps[matched].name)]
    ELSE ps

\* the double link of one dependency name of one project
DoubleLink(ps, name, dependencyName) ==
    IF \E i \in 1..Len(ps) : ps[i].package = dependencyName
    THEN LET matched == (CHOOSE i \in 1..Len(ps) : ps[i].package = dependencyName)
             project == (CHOOSE i \in 1..Len(ps) : ps[i].name = name)
             linked  == [ps EXCEPT ![project].dependencies =
                                        SetAdd(@, ps[matched].name)]
         IN  [linked EXCEPT ![matched].consumers = SetAdd(@, name)]
    ELSE ps

RECURSIVE LinkDependencies(_, _, _)
LinkDependencies(ps, name, dependencyNames) ==
    IF dependencyNames = <<>> THEN ps
    ELSE LinkDependencies(DoubleLink(ps, name, Head(dependencyNames)),
                          name, Tail(dependencyNames))

RECURSIVE LinkProjects(_, _, _)
LinkProjects(ps, allDependencies, i) ==
    IF i > Len(ps) THEN ps
    ELSE LinkProjects(
            LinkDependencies(ps, ps[i].name, SortAscending(allDependencies[i])),
            allDependencies, i + 1)

\* packageName[i] is the package name of project i, allDependencies[i] the
\* dependency names its package.json lists
parseGraph(packageName, allDependencies) ==
    LinkProjects(
        [i \in 1..Len(packageName) |->
            [name |-> i, package |-> packageName[i],
             dependencies |-> <<>>, consumers |-> <<>>]],
        allDependencies, 1)

----------------------------------------------------------------------------
(* order.ts: order() and the two depth searches *)

\* A search state: the pending calls, the level map, and how the search
\* stands: "ok", "exitError" (name is the project the message names) or
\* "overflow" (the recursion went deeper than the call stack allows).
SearchState(frames, map) ==
    [stack |-> frames, map |-> map, status |-> "ok", name |-> 0]

\* the calls project.consumers.forEach / project.dependencies.forEach makes
Calls(level, targets) ==
    [i \in 1..Len(targets) |-> [level |-> level, project |-> targets[i]]]

\* depthSearchTreeUp without the update along a longer path: a project that
\* already has a level is left where the first path put it
depthSearchTreeUpFirstPath(ps, st) ==
    LET level   == Head(st.stack).level
        project == Head(st.stack).project
    IN  IF level > MaxLevel
        THEN [st EXCEPT !.status = "overflow"]
        ELSE IF ~MapHas(st.map, project) \/ MapGet(st.map, project) = 0
        THEN [st EXCEPT
                 !.map = MapSet(st.map, project, level),
                 !.stack = Calls(level + 1, Get(ps, project).consumers)
                               \o Tail(st.stack)]
        ELSE IF MapGet(st.map, project) < 0
        THEN [st EXCEPT !.status = "exitError", !.name = project]
        ELSE [st EXCEPT !.stack = Tail(st.stack)]

\* depthSearchTreeUp that takes level 0 for a level like any other: a call
\* that comes back to the anchor does nothing
depthSearchTreeUpStopsAtAnchor(ps, st) ==
    LET level   == Head(st.stack).level
        project == Head(st.stack).project
        follow  == [st EXCEPT
                       !.map = MapSet(st.map, project, level),
                       !.stack = Calls(level + 1, Get(ps, project).consumers)
                                     \o Tail(st.stack)]
    IN  IF level > MaxLevel
        THEN [st EXCEPT !.status = "overflow"]
        ELSE IF ~MapHas(st.map, project)
        THEN follow
        ELSE IF MapGet(st.map, project) < 0
        THEN [st EXCEPT !.status = "exitError", !.name = project]
        ELSE IF level > 0 /\ MapGet(st.map, project) \in {0} \cup (level..MaxLevel)
        THEN [st EXCEPT !.stack = Tail(st.stack)]
        ELSE follow

\* depthSearchTreeUp that sets the level and follows whatever level the
\* project already has
depthSearchTreeUpAlwaysFollows(ps, st) ==
    LET level   == Head(st.stack).level
        project == Head(st.stack).project
    IN  IF level > MaxLevel
        THEN [st EXCEPT !.status = "overflow"]
        ELSE [st EXCEPT
                 !.map = MapSet(st.map, project, level),
                 !.stack = Calls(level + 1, Get(ps, project).consumers)
                               \o Tail(st.stack)]

\* one call of depthSearchTreeUp: the innermost pending call runs up to its
\* recursive calls, which become the innermost pending calls
depthSearchTreeUp(ps, st) ==
    LET level   == Head(st.stack).level
        project == Head(st.stack).project
        follow  == [st EXCEPT
                       !.map = MapSet(st.map, project, level),
                       !.stack = Calls(level + 1, Get(ps, project).consumers)
                                     \o Tail(st.stack)]
    IN  IF level > MaxLevel
        THEN [st EXCEPT !.status = "overflow"]
        ELSE IF ~MapHas(st.map, project) \/ MapGet(st.map, project) = 0
        THEN follow
        ELSE IF MapGet(st.map, project) < 0
        THEN [st EXCEPT !.status = "exitError", !.name = project]
        ELSE IF MapGet(st.map, project) >= level
        THEN [st EXCEPT !.stack = Tail(st.stack)]
        ELSE follow

\* depthSearchTreeDown that sets the level of the project it is called for
\* and calls itself for none of the project's dependencies
depthSearchTreeDownNoFollow(ps, st) ==
    LET level   == Head(st.stack).level
        project == Head(st.stack).project
    IN  IF ~MapHas(st.map, project) \/ MapGet(st.map, project) <= 0
        THEN [st EXCEPT !.map = MapSet(st.map, project, level),
                        !.stack = Tail(st.stack)]
        ELSE [st EXCEPT !.status = "exitError", !.name = project]

\* depthSearchTreeDown without the update along a longer path
depthSearchTreeDownFirstPath(ps, st) ==
    LET level   == Head(st.stack).level
        project == Head(st.stack).project
    IN  IF level < 0 - MaxLevel
        THEN [st EXCEPT !.status = "overflow"]
        ELSE IF ~MapHas(st.map, project) \/ MapGet(st.map, project) = 0
        THEN [st EXCEPT
                 !.map = MapSet(st.map, project, level),
                 !.stack = Calls(level - 1, Get(ps, project).dependencies)
                               \o Tail(st.stack)]
        ELSE IF MapGet(st.map, project) > 0
        THEN [st EXCEPT !.status = "exitError", !.name = project]
        ELSE [st EXCEPT !.stack = Tail(st.stack)]

\* one call of depthSearchTreeDown
depthSearchTreeDown(ps, st) ==
    LET level   == Head(st.stack).level
        project == Head(st.stack).project
        follow  == [st EXCEPT
                       !.map = MapSet(st.map, project, level),
                       !.stack = Calls(level - 1, Get(ps, project).dependencies)
                                     \o Tail(st.stack)]
    IN  IF level < 0 - MaxLevel
        THEN [st EXCEPT !.status = "overflow"]
        ELSE IF ~MapHas(st.map, project) \/ MapGet(st.map, project) = 0
        THEN follow
        ELSE IF MapGet(st.map, project) > 0
        THEN [st EXCEPT !.status = "exitError", !.name = project]
        ELSE IF MapGet(st.map, project) <= level
        THEN [st EXCEPT !.stack = Tail(st.stack)]
        ELSE follow

\* the projects of the map, level by level in ascending order, each level in
\* the map's iteration order (invertedCommandMap and the sorted keys)
RECURSIVE FlattenLevels(_, _)
FlattenLevels(map, levels) ==
    IF levels = {} THEN <<>>
    ELSE LET key == CHOOSE k \in levels : \A l \in levels : k <= l
             projectsAtLevel == SelectSeq(map, LAMBDA e : e.level = key)
         IN  [i \in 1..Len(projectsAtLevel) |-> projectsAtLevel[i].project]
                 \o FlattenLevels(map, levels \ {key})

\* order()'s result with the anchor kept whatever `including` says
orderResultKeepsAnchor(map, centerProject, incl) ==
    FlattenLevels(map, {map[i].level : i \in 1..Len(map)})

\* order()'s result that, with the anchor excluded, keeps the consumers only
orderResultKeepsAbove(map, centerProject, incl) ==
    LET kept == IF incl THEN map ELSE SelectSeq(map, LAMBDA e : e.level > 0)
    IN  FlattenLevels(kept, {kept[i].level : i \in 1..Len(kept)})

\* what order() returns from the map the searches left
orderResult(map, centerProject, incl) ==
    LET kept == IF incl THEN map ELSE MapDelete(map, centerProject)
    IN  FlattenLevels(kept, {kept[i].level : i \in 1..Len(kept)})

\* a whole depth search, from its first call to its return
RECURSIVE RunSearchUp(_, _)
RunSearchUp(ps, st) ==
    IF st.status # "ok" \/ st.stack = <<>> THEN st
    ELSE RunSearchUp(ps, depthSearchTreeUp(ps, st))

RECURSIVE RunSearchDown(_, _)
RunSearchDown(ps, st) ==
    IF st.status # "ok" \/ st.stack = <<>> THEN st
    ELSE RunSearchDown(ps, depthSearchTreeDown(ps, st))

\* a whole call order(projects, name, incl, ab, be) for a name of the graph:
\* [status, name, result]
order(ps, name, incl, ab, be) ==
    LET first == <<[level |-> 0, project |-> name]>>
        start == <<[project |-> name, level |-> 0]>>
        up    == IF ab THEN RunSearchUp(ps, SearchState(first, start))
                 ELSE SearchState(<<>>, start)
        down  == IF up.status = "ok" /\ be
                 THEN RunSearchDown(ps, SearchState(first, up.map))
                 ELSE up
    IN  [status |-> down.status, name |-> down.name,
         result |-> IF down.status = "ok"
                    THEN orderResult(down.map, name, incl) ELSE <<>>]

----------------------------------------------------------------------------
(* order.ts: the helpers of orderMultiple() *)

\* intersect without its filter
intersectKeepsAll(setA, setB) == setA

\* an intersection in the order of the second set
intersectInOrderOfSecond(setA, setB) ==
    SelectSeq(setB, LAMBDA item : item \in Range(setA))

\* Intersects, maintaining the order of the first set.
intersect(setA, setB) == SelectSeq(setA, LAMBDA item : item \in Range(setB))

\* the first project of the scan (set by set, project by project) that an
\* earlier set already holds: its position in the concatenation, 0 if none
FirstRepeat(all) ==
    IF \E k \in 1..Len(all) : \E j \in 1..(k - 1) : all[j] = all[k]
    THEN CHOOSE k \in 1..Len(all) :
            /\ \E j \in 1..(k - 1) : all[j] = all[k]
            /\ \A m \in 1..(k - 1) : \A j \in 1..(m - 1) : all[j] # all[m]
    ELSE 0

\* [found, intersection, sets]: without an intersection, found is FALSE and
\* intersection is the union of the sets; with one, sets are the positions in
\* `sets` of the sets that hold the intersected project
findAnyIntersection(sets) ==
    LET all == Concat(sets)
        k   == FirstRepeat(all)
    IN  IF k = 0
        THEN [found |-> FALSE, intersection |-> all, sets |-> <<>>]
        ELSE LET intersectedProject == all[k]
                 intersectingSets ==
                     SelectSeq([i \in 1..Len(sets) |-> i],
                               LAMBDA i : intersectedProject \in Range(sets[i]))
                 scratch == sets[Head(intersectingSets)]
             IN  [found |-> TRUE,
                  intersection |->
                      SelectSeq(scratch, LAMBDA item :
                          \A j \in 1..Len(intersectingSets) :
                              item \in Range(sets[intersectingSets[j]])),
                  sets |-> intersectingSets]

\* one call of a SetUntilIterator over `set` whose iterator stands before
\* position `from`: the items it returns and where the iterator stands after
SetUntil(set, from, makeSetUntil) ==
    IF \E j \in from..Len(set) : set[j] = makeSetUntil
    THEN LET stop == CHOOSE j \in from..Len(set) :
                        /\ set[j] = makeSetUntil
                        /\ \A m \in from..(j - 1) : set[m] # makeSetUntil
         IN  [items |-> SubSeq(set, from, stop - 1), next |-> stop + 1]
    ELSE [items |-> SubSeq(set, from, Len(set)), next |-> Len(set) + 1]

\* the for loop over the iterators in one round of the merge; value 0 is null
RECURSIVE MergeIterators(_, _, _, _, _)
MergeIterators(sets, value, i, positions, merged) ==
    IF i > Len(sets) THEN [positions |-> positions, merged |-> merged]
    ELSE LET toAdd == SetUntil(sets[i], positions[i], value)
         IN  MergeIterators(sets, value, i + 1,
                            [positions EXCEPT ![i] = toAdd.next],
                            SetAddAll(merged, toAdd.items))

\* the while loop of the merge: round k takes the k-th intersection value,
\* the round after the last one finishes up with null
RECURSIVE MergeRounds(_, _, _, _, _)
MergeRounds(intersection, sets, k, positions, merged) ==
    IF k > Len(intersection)
    THEN MergeIterators(sets, 0, 1, positions, merged).merged
    ELSE LET round == MergeIterators(sets, intersection[k], 1, positions, merged)
         IN  MergeRounds(intersection, sets, k + 1, round.positions,
                         SetAdd(round.merged, intersection[k]))

RECURSIVE SumOfSizes(_)
SumOfSizes(sets) ==
    IF sets = <<>> THEN 0 ELSE Len(Head(sets)) + SumOfSizes(Tail(sets))

\* a merge that takes the intersection for all that was needed
smartMergeReturnsIntersection(intersection, intersectingSets) == intersection

smartMergeIntersectingSets(intersection, intersectingSets) ==
    IF Len(intersection) = SumOfSizes(intersectingSets)
    THEN intersection
    ELSE MergeRounds(intersection, intersectingSets, 1,
                     [i \in 1..Len(intersectingSets) |-> 1], <<>>)

----------------------------------------------------------------------------
(* The configurations the calls run on *)

\* <<consumer, dependency>>: package.json of consumer names dependency
Pairs(n) == {e \in (1..n) \X (1..n) : e[1] # e[2]}

RECURSIVE EdgeSets(_, _)
EdgeSets(n, k) ==
    IF k = 0 THEN {{}}
    ELSE LET smaller == EdgeSets(n, k - 1)
         IN  smaller \cup {E \cup {e} : E \in smaller, e \in Pairs(n)}

\* package names sort as the project names do, or the other way round
PackageNamings(n) == {[i \in 1..n |-> i], [i \in 1..n |-> n + 1 - i]}

Configuration(packageName, E) ==
    parseGraph(packageName,
               [i \in 1..Len(packageName) |->
                   {packageName[e[2]] : e \in {f \in E : f[1] = i}}])

\* every configuration of NumProjects projects with at most MaxEdges
\* dependencies among them
SmallGraphs ==
    {Configuration(packageName, E) :
        packageName \in PackageNamings(NumProjects),
        E \in EdgeSets(NumProjects, MaxEdges)}

\* a chain of NumProjects + 1 projects, each depending on its neighbour or
\* its neighbour on it, in every combination
ChainGraphs ==
    {Configuration(packageName,
                   {IF towards[i] THEN <<i, i + 1>> ELSE <<i + 1, i>> :
                        i \in 1..NumProjects}) :
        packageName \in PackageNamings(NumProjects + 1),
        towards \in [1..NumProjects -> BOOLEAN]}

\* a ring of NumProjects + 2 projects, each depending on its neighbour or its
\* neighbour on it, in every combination; the package names sort as the
\* project names do
RingGraphs ==
    LET n == NumProjects + 2
    IN  {Configuration([i \in 1..n |-> i],
                       {IF towards[i] THEN <<i, (i % n) + 1>>
                                      ELSE <<(i % n) + 1, i>> : i \in 1..n}) :
            towards \in [1..n -> BOOLEAN]}

\* one more project than the loops of orderMultiple() may turn, none of them
\* depending on another
WideGraph == Configuration([i \in 1..(LOOP_SAFETY + 1) |-> i], {})

\* as many unrelated projects as the harvest loop may turn, each sharing a
\* dependency with the next: projects 1..LOOP_SAFETY, and project
\* LOOP_SAFETY + k a dependency of projects k and k + 1
CombGraph ==
    Configuration([i \in 1..(2 * LOOP_SAFETY - 1) |-> i],
                  {<<k, LOOP_SAFETY + k>> : k \in 1..(LOOP_SAFETY - 1)}
                  \cup {<<k + 1, LOOP_SAFETY + k>> : k \in 1..(LOOP_SAFETY - 1)})

\* ids no project has
AbsentIds(ps) == {Len(ps) + 1, Len(ps) + 2}

\* the ids a call may name: any of a small graph or a chain; those of the
\* wide graph in ascending order
NextIds ==
    IF Len(projects) > LOOP_SAFETY
    THEN {i \in Names(projects) : i = Len(requestingProjects) + 1}
    ELSE Names(projects) \cup AbsentIds(projects)

NoError == [kind |-> "none", name |-> 0]

\* runCommand() is not running
NoInput ==
    [isExplicit |-> FALSE, projects |-> "unset", includeProject |-> FALSE,
     includeAbove |-> FALSE, includeBelow |-> FALSE]

NoFlags == [install |-> FALSE, dryRun |-> FALSE, pushpull |-> FALSE]

\* scriptName: null
NoScript == "null"

\* stats before the first project: currentProject is null (0 is no project)
NoStats == [currentProject |-> 0, projectIndex |-> -1]

\* createGraph has returned one of the graphs; nothing is called yet
Start(graphs) ==
    /\ projects \in graphs
    /\ pc = "idle"
    /\ op = "none"
    /\ id = 0
    /\ including = FALSE
    /\ above = FALSE
    /\ below = FALSE
    /\ commandMap = <<>>
    /\ stack = <<>>
    /\ requestingProjects = <<>>
    /\ missingProjects = <<>>
    /\ resultSets = <<>>
    /\ loopIndex = 0
    /\ result = <<>>
    /\ errorMessage = NoError
    /\ exitCode = 0
    /\ modifier = "unset"
    /\ input = NoInput
    /\ flags = NoFlags
    /\ scriptName = NoScript
    /\ selectedProjects = <<>>
    /\ stats = NoStats
    /\ additionalConsumers = <<>>
    /\ executed = <<>>

Init == Start(SmallGraphs \cup ChainGraphs \cup {WideGraph})

----------------------------------------------------------------------------
(* error.ts *)

\* exitError(message): the message is printed and the process exits with 1
exitError(kind, name) ==
    /\ errorMessage' = [kind |-> kind, name |-> name]
    /\ exitCode' = 1
    /\ pc' = "exit"

----------------------------------------------------------------------------
(* order(projects, id, including, above, below), call by call *)

CallOrder(i, incl, ab, be) ==
    /\ pc = "idle"
    /\ op' = "order"
    /\ id' = i
    /\ including' = incl
    /\ above' = ab
    /\ below' = be
    /\ IF i \notin Names(projects)
       THEN /\ exitError("does not exist", i)
            /\ UNCHANGED <<commandMap, stack>>
       ELSE /\ commandMap' = <<[project |-> i, level |-> 0]>>
            /\ stack' = IF ab THEN <<[level |-> 0, project |-> i]>> ELSE <<>>
            /\ pc' = "searchUp"
            /\ UNCHANGED <<errorMessage, exitCode>>
    /\ UNCHANGED <<projects, requestingProjects, missingProjects, resultSets,
                   loopIndex, result>>
    /\ UNCHANGED commandVars

\* what a step of a depth search leaves
Searched(st) ==
    /\ commandMap' = st.map
    /\ stack' = st.stack
    /\ IF st.status = "exitError"
       THEN exitError("is both a consumer and dependency", st.name)
       ELSE /\ pc' = IF st.status = "overflow" THEN "overflow" ELSE pc
            /\ UNCHANGED <<errorMessage, exitCode>>
    /\ UNCHANGED <<projects, op, id, including, above, below,
                   requestingProjects, missingProjects, resultSets, loopIndex,
                   result>>
    /\ UNCHANGED commandVars

SearchUp ==
    /\ pc = "searchUp"
    /\ stack # <<>>
    /\ Searched(depthSearchTreeUp(projects, SearchState(stack, commandMap)))

OrderBelow ==
    /\ pc = "searchUp"
    /\ stack = <<>>
    /\ pc' = "searchDown"
    /\ stack' = IF below THEN <<[level |-> 0, project |-> id]>> ELSE <<>>
    /\ UNCHANGED <<projects, op, id, including, above, below, commandMap,
                   requestingProjects, missingProjects, resultSets, loopIndex,
                   result, errorMessage, exitCode>>
    /\ UNCHANGED commandVars

SearchDown ==
    /\ pc = "searchDown"
    /\ stack # <<>>
    /\ Searched(depthSearchTreeDown(projects, SearchState(stack, commandMap)))

\* order() deleting the anchor from the projects map instead of commandMap
OrderReturnDeletesProject ==
    /\ pc = "searchDown"
    /\ stack = <<>>
    /\ projects' = IF including THEN projects
                   ELSE SelectSeq(projects, LAMBDA project : project.name # id)
    /\ result' = orderResult(commandMap, id, TRUE)
    /\ pc' = "done"
    /\ UNCHANGED <<op, id, including, above, below, commandMap, stack,
                   requestingProjects, missingProjects, resultSets, loopIndex,
                   errorMessage, exitCode>>
    /\ UNCHANGED commandVars

OrderReturn ==
    /\ pc = "searchDown"
    /\ stack = <<>>
    /\ commandMap' = IF including THEN commandMap ELSE MapDelete(commandMap, id)
    /\ result' = orderResult(commandMap, id, including)
    /\ pc' = "done"
    /\ UNCHANGED <<projects, op, id, including, above, below, stack,
                   requestingProjects, missingProjects, resultSets, loopIndex,
                   errorMessage, exitCode>>
    /\ UNCHANGED commandVars

\* the caller goes on to its next call on the same graph
NextCall ==
    /\ pc = "done"
    /\ pc' = "idle"
    /\ op' = "none"
    /\ id' = 0
    /\ including' = FALSE
    /\ above' = FALSE
    /\ below' = FALSE
    /\ commandMap' = <<>>
    /\ stack' = <<>>
    /\ requestingProjects' = <<>>
    /\ missingProjects' = <<>>
    /\ resultSets' = <<>>
    /\ loopIndex' = 0
    /\ result' = <<>>
    /\ UNCHANGED <<projects, errorMessage, exitCode>>
    /\ UNCHANGED commandVars

----------------------------------------------------------------------------
(* orderMultiple(projects, ids), loop turn by loop turn *)

CallOrderMultiple ==
    /\ pc = "idle"
    /\ op' = "orderMultiple"
    /\ pc' = "resolve"
    /\ UNCHANGED <<projects, id, including, above, below, commandMap, stack,
                   requestingProjects, missingProjects, resultSets, loopIndex,
                   result, errorMessage, exitCode>>
    /\ UNCHANGED commandVars

\* a turn of ids.forEach that goes on to the next id when the id is absent
ResolveIdSkipsAbsent(i) ==
    /\ pc = "resolve"
    /\ i \in NextIds
    /\ id' = IF i \in Names(projects) THEN id ELSE i
    /\ requestingProjects' =
           IF i \in Names(projects) THEN SetAdd(requestingProjects, i)
           ELSE requestingProjects
    /\ UNCHANGED <<projects, pc, op, including, above, below, commandMap,
                   stack, missingProjects, resultSets, loopIndex, result,
                   errorMessage, exitCode>>
    /\ UNCHANGED commandVars

\* one turn of ids.forEach
ResolveId(i) ==
    /\ pc = "resolve"
    /\ i \in NextIds
    /\ IF i \notin Names(projects)
       THEN /\ id' = i
            /\ exitError("is not defined", i)
            /\ UNCHANGED requestingProjects
       ELSE /\ requestingProjects' = SetAdd(requestingProjects, i)
            /\ UNCHANGED <<id, pc, errorMessage, exitCode>>
    /\ UNCHANGED <<projects, op, including, above, below, commandMap, stack,
                   missingProjects, resultSets, loopIndex, result>>
    /\ UNCHANGED commandVars

\* ids.forEach is through
Resolved ==
    /\ pc = "resolve"
    /\ IF Len(requestingProjects) = 0
       THEN /\ result' = <<>>
            /\ pc' = "done"
            /\ UNCHANGED missingProjects
       ELSE /\ missingProjects' = requestingProjects
            /\ pc' = "harvest"
            /\ UNCHANGED result
    /\ UNCHANGED <<projects, op, id, including, above, below, commandMap,
                   stack, requestingProjects, resultSets, loopIndex,
                   errorMessage, exitCode>>
    /\ UNCHANGED commandVars

\* a harvest loop that asks order() for the anchor and its consumers only
HarvestOrdersAbove ==
    /\ pc = "harvest"
    /\ LET requestedProject == Head(missingProjects)
           resultProjects == order(projects, requestedProject, TRUE, TRUE, FALSE)
           filteredResultProjects ==
               intersect(resultProjects.result, requestingProjects)
           stillMissing ==
               SelectSeq(missingProjects,
                         LAMBDA p : p \notin Range(filteredResultProjects))
       IN  IF resultProjects.status = "overflow"
           THEN /\ pc' = "overflow"
                /\ UNCHANGED <<resultSets, missingProjects, loopIndex,
                               errorMessage, exitCode>>
           ELSE IF resultProjects.status = "exitError"
           THEN /\ exitError("is both a consumer and dependency",
                             resultProjects.name)
                /\ UNCHANGED <<resultSets, missingProjects, loopIndex>>
           ELSE IF Len(filteredResultProjects) = Len(requestingProjects)
           THEN /\ resultSets' = <<filteredResultProjects>>
                /\ loopIndex' = 0
                /\ pc' = "merge"
                /\ UNCHANGED <<missingProjects, errorMessage, exitCode>>
           ELSE /\ resultSets' = Append(resultSets, filteredResultProjects)
                /\ missingProjects' = stillMissing
                /\ IF loopIndex + 1 > LOOP_SAFETY
                   THEN /\ loopIndex' = loopIndex + 1
                        /\ exitError("Looped too many times", 0)
                   ELSE /\ loopIndex' = IF stillMissing = <<>> THEN 0
                                        ELSE loopIndex + 1
                        /\ pc' = IF stillMissing = <<>> THEN "merge"
                                 ELSE "harvest"
                        /\ UNCHANGED <<errorMessage, exitCode>>
    /\ UNCHANGED <<projects, op, id, including, above, below, commandMap,
                   stack, requestingProjects, result>>
    /\ UNCHANGED commandVars

\* a harvest loop that picks the last of the missing projects
HarvestPicksLast ==
    /\ pc = "harvest"
    /\ LET requestedProject == missingProjects[Len(missingProjects)]
           resultProjects == order(projects, requestedProject, TRUE, TRUE, TRUE)
           filteredResultProjects ==
               intersect(resultProjects.result, requestingProjects)
           stillMissing ==
               SelectSeq(missingProjects,
                         LAMBDA p : p \notin Range(filteredResultProjects))
       IN  IF resultProjects.status = "overflow"
           THEN /\ pc' = "overflow"
                /\ UNCHANGED <<resultSets, missingProjects, loopIndex,
                               errorMessage, exitCode>>
           ELSE IF resultProjects.status = "exitError"
           THEN /\ exitError("is both a consumer and dependency",
                             resultProjects.name)
                /\ UNCHANGED <<resultSets, missingProjects, loopIndex>>
           ELSE IF Len(filteredResultProjects) = Len(requestingProjects)
           THEN /\ resultSets' = <<filteredResultProjects>>
                /\ loopIndex' = 0
                /\ pc' = "merge"
                /\ UNCHANGED <<missingProjects, errorMessage, exitCode>>
           ELSE /\ resultSets' = Append(resultSets, filteredResultProjects)
                /\ missingProjects' = stillMissing
                /\ IF loopIndex + 1 > LOOP_SAFETY
                   THEN /\ loopIndex' = loopIndex + 1
                        /\ exitError("Looped too many times", 0)
                   ELSE /\ loopIndex' = IF stillMissing = <<>> THEN 0
                                        ELSE loopIndex + 1
                        /\ pc' = IF stillMissing = <<>> THEN "merge"
                                 ELSE "harvest"
                        /\ UNCHANGED <<errorMessage, exitCode>>
    /\ UNCHANGED <<projects, op, id, including, above, below, commandMap,
                   stack, requestingProjects, result>>
    /\ UNCHANGED commandVars

\* a harvest loop that takes the picked anchor, and no other project of the
\* slice, out of the missing projects
HarvestRemovesAnchorOnly ==
    /\ pc = "harvest"
    /\ LET requestedProject == Head(missingProjects)
           resultProjects == order(projects, requestedProject, TRUE, TRUE, TRUE)
           filteredResultProjects ==
               intersect(resultProjects.result, requestingProjects)
           stillMissing ==
               SelectSeq(missingProjects,
                         LAMBDA p : p # requestedProject)
       IN  IF resultProjects.status = "overflow"
           THEN /\ pc' = "overflow"
                /\ UNCHANGED <<resultSets, missingProjects, loopIndex,
                               errorMessage, exitCode>>
           ELSE IF resultProjects.status = "exitError"
           THEN /\ exitError("is both a consumer and dependency",
                             resultProjects.name)
                /\ UNCHANGED <<resultSets, missingProjects, loopIndex>>
           ELSE IF Len(filteredResultProjects) = Len(requestingProjects)
           THEN /\ resultSets' = <<filteredResultProjects>>
                /\ loopIndex' = 0
                /\ pc' = "merge"
                /\ UNCHANGED <<missingProjects, errorMessage, exitCode>>
           ELSE /\ resultSets' = Append(resultSets, filteredResultProjects)
                /\ missingProjects' = stillMissing
                /\ IF loopIndex + 1 > LOOP_SAFETY
                   THEN /\ loopIndex' = loopIndex + 1
                        /\ exitError("Looped too many times", 0)
                   ELSE /\ loopIndex' = IF stillMissing = <<>> THEN 0
                                        ELSE loopIndex + 1
                        /\ pc' = IF stillMissing = <<>> THEN "merge"
                                 ELSE "harvest"
                        /\ UNCHANGED <<errorMessage, exitCode>>
    /\ UNCHANGED <<projects, op, id, including, above, below, commandMap,
                   stack, requestingProjects, result>>
    /\ UNCHANGED commandVars

\* a harvest loop without checkLoop
HarvestNeverChecks ==
    /\ pc = "harvest"
    /\ LET requestedProject == Head(missingProjects)
           resultProjects == order(projects, requestedProject, TRUE, TRUE, TRUE)
           filteredResultProjects ==
               intersect(resultProjects.result, requestingProjects)
           stillMissing ==
               SelectSeq(missingProjects,
                         LAMBDA p : p \notin Range(filteredResultProjects))
       IN  IF resultProjects.status = "overflow"
           THEN /\ pc' = "overflow"
                /\ UNCHANGED <<resultSets, missingProjects, loopIndex,
                               errorMessage, exitCode>>
           ELSE IF resultProjects.status = "exitError"
           THEN /\ exitError("is both a consumer and dependency",
                             resultProjects.name)
                /\ UNCHANGED <<resultSets, missingProjects, loopIndex>>
           ELSE IF Len(filteredResultProjects) = Len(requestingProjects)
           THEN /\ resultSets' = <<filteredResultProjects>>
                /\ loopIndex' = 0
                /\ pc' = "merge"
                /\ UNCHANGED <<missingProjects, errorMessage, exitCode>>
           ELSE /\ resultSets' = Append(resultSets, filteredResultProjects)
                /\ missingProjects' = stillMissing
                /\ IF FALSE
                   THEN /\ loopIndex' = loopIndex + 1
                        /\ exitError("Looped too many times", 0)
                   ELSE /\ loopIndex' = IF stillMissing = <<>> THEN 0
                                        ELSE loopIndex + 1
                        /\ pc' = IF stillMissing = <<>> THEN "merge"
                                 ELSE "harvest"
                        /\ UNCHANGED <<errorMessage, exitCode>>
    /\ UNCHANGED <<projects, op, id, including, above, below, commandMap,
                   stack, requestingProjects, result>>
    /\ UNCHANGED commandVars

\* a harvest loop that looks at its condition before it checks the count of
\* its turns
HarvestChecksUnlessDone ==
    /\ pc = "harvest"
    /\ LET requestedProject == Head(missingProjects)
           resultProjects == order(projects, requestedProject, TRUE, TRUE, TRUE)
           filteredResultProjects ==
               intersect(resultProjects.result, requestingProjects)
           stillMissing ==
               SelectSeq(missingProjects,
                         LAMBDA p : p \notin Range(filteredResultProjects))
       IN  IF resultProjects.status = "overflow"
           THEN /\ pc' = "overflow"
                /\ UNCHANGED <<resultSets, missingProjects, loopIndex,
                               errorMessage, exitCode>>
           ELSE IF resultProjects.status = "exitError"
           THEN /\ exitError("is both a consumer and dependency",
                             resultProjects.name)
                /\ UNCHANGED <<resultSets, missingProjects, loopIndex>>
           ELSE IF Len(filteredResultProjects) = Len(requestingProjects)
           THEN /\ resultSets' = <<filteredResultProjects>>
                /\ loopIndex' = 0
                /\ pc' = "merge"
                /\ UNCHANGED <<missingProjects, errorMessage, exitCode>>
           ELSE /\ resultSets' = Append(resultSets, filteredResultProjects)
                /\ missingProjects' = stillMissing
                /\ IF loopIndex + 1 > LOOP_SAFETY /\ stillMissing # <<>>
                   THEN /\ loopIndex' = loopIndex + 1
                        /\ exitError("Looped too many times", 0)
                   ELSE /\ loopIndex' = IF stillMissing = <<>> THEN 0
                                        ELSE loopIndex + 1
                        /\ pc' = IF stillMissing = <<>> THEN "merge"
                                 ELSE "harvest"
                        /\ UNCHANGED <<errorMessage, exitCode>>
    /\ UNCHANGED <<projects, op, id, including, above, below, commandMap,
                   stack, requestingProjects, result>>
    /\ UNCHANGED commandVars

\* one turn of while (missingProjects.size), the call of order() included.
\* missingProjects is not empty here, so its first value is a project and the
\* 'logic bug' exit is never taken.
Harvest ==
    /\ pc = "harvest"
    /\ LET requestedProject == Head(missingProjects)
           resultProjects == order(projects, requestedProject, TRUE, TRUE, TRUE)
           filteredResultProjects ==
               intersect(resultProjects.result, requestingProjects)
           stillMissing ==
               SelectSeq(missingProjects,
                         LAMBDA p : p \notin Range(filteredResultProjects))
       IN  IF resultProjects.status = "overflow"
           THEN /\ pc' = "overflow"
                /\ UNCHANGED <<resultSets, missingProjects, loopIndex,
                               errorMessage, exitCode>>
           ELSE IF resultProjects.status = "exitError"
           THEN /\ exitError("is both a consumer and dependency",
                             resultProjects.name)
                /\ UNCHANGED <<resultSets, missingProjects, loopIndex>>
           ELSE IF Len(filteredResultProjects) = Len(requestingProjects)
           THEN /\ resultSets' = <<filteredResultProjects>>
                /\ loopIndex' = 0
                /\ pc' = "merge"
                /\ UNCHANGED <<missingProjects, errorMessage, exitCode>>
           ELSE /\ resultSets' = Append(resultSets, filteredResultProjects)
                /\ missingProjects' = stillMissing
                /\ IF loopIndex + 1 > LOOP_SAFETY
                   THEN /\ loopIndex' = loopIndex + 1
                        /\ exitError("Looped too many times", 0)
                   ELSE /\ loopIndex' = IF stillMissing = <<>> THEN 0
                                        ELSE loopIndex + 1
                        /\ pc' = IF stillMissing = <<>> THEN "merge"
                                 ELSE "harvest"
                        /\ UNCHANGED <<errorMessage, exitCode>>
    /\ UNCHANGED <<projects, op, id, including, above, below, commandMap,
                   stack, requestingProjects, result>>
    /\ UNCHANGED commandVars

\* a turn of the merge loop that adds the merged set and leaves the sets it
\* merged in the collection
MergeRoundKeepsMerged ==
    /\ pc = "merge"
    /\ LET found == findAnyIntersection(resultSets)
           mergedSet ==
               smartMergeIntersectingSets(
                   found.intersection,
                   [j \in 1..Len(found.sets) |-> resultSets[found.sets[j]]])
       IN  /\ found.found
           /\ resultSets' = Append(resultSets, mergedSet)
           /\ loopIndex' = loopIndex + 1
           /\ IF loopIndex + 1 > LOOP_SAFETY
              THEN exitError("Looped too many times", 0)
              ELSE UNCHANGED <<pc, errorMessage, exitCode>>
    /\ UNCHANGED <<projects, op, id, including, above, below, commandMap,
                   stack, requestingProjects, missingProjects, result>>
    /\ UNCHANGED commandVars

\* one turn of while (multiSetIntersected !== false)
MergeRound ==
    /\ pc = "merge"
    /\ LET found == findAnyIntersection(resultSets)
           mergedSet ==
               smartMergeIntersectingSets(
                   found.intersection,
                   [j \in 1..Len(found.sets) |-> resultSets[found.sets[j]]])
           remaining ==
               SelectSeq([i \in 1..Len(resultSets) |-> i],
                         LAMBDA i : i \notin Range(found.sets))
       IN  /\ found.found
           /\ resultSets' =
                  Append([j \in 1..Len(remaining) |-> resultSets[remaining[j]]],
                         mergedSet)
           /\ loopIndex' = loopIndex + 1
           /\ IF loopIndex + 1 > LOOP_SAFETY
              THEN exitError("Looped too many times", 0)
              ELSE UNCHANGED <<pc, errorMessage, exitCode>>
    /\ UNCHANGED <<projects, op, id, including, above, below, commandMap,
                   stack, requestingProjects, missingProjects, result>>
    /\ UNCHANGED commandVars

\* the loop is left: return multiSetIntersection
MultipleReturn ==
    /\ pc = "merge"
    /\ LET found == findAnyIntersection(resultSets)
       IN  /\ ~found.found
           /\ result' = found.intersection
    /\ pc' = "done"
    /\ UNCHANGED <<projects, op, id, including, above, below, commandMap,
                   stack, requestingProjects, missingProjects, resultSets,
                   loopIndex, errorMessage, exitCode>>
    /\ UNCHANGED commandVars

----------------------------------------------------------------------------
(* graph.ts: parseGraph, link by link *)

\* a dependency name no configured project has as its package name
ExternalName(n) == n + 1

\* mapProjectNameToProject after the first forEach: no project is linked
Unlinked(packageName) ==
    [i \in 1..Len(packageName) |->
        [name |-> i, package |-> packageName[i],
         dependencies |-> <<>>, consumers |-> <<>>]]

\* the turns of the two nested forEach of the second pass, in the order they
\* are taken: project by project, the dependency names of each sorted
WorkList(ps, allDependencies) ==
    Concat([i \in 1..Len(ps) |->
        LET sorted == SortAscending(allDependencies[i])
        IN  [j \in 1..Len(sorted) |->
                [project |-> ps[i].name, dependencyName |-> sorted[j]]]])

\* the state before the second pass: stack holds its turns, loopIndex the
\* number of turns taken.  The package.json of a project names packages of
\* other projects and, for the projects of external, a package that is no
\* project.
InitParse ==
    /\ \E packageName \in PackageNamings(NumProjects),
          E \in EdgeSets(NumProjects, MaxEdges),
          external \in SUBSET (1..NumProjects) :
            LET allDependencies ==
                    [i \in 1..NumProjects |->
                        {packageName[e[2]] : e \in {f \in E : f[1] = i}}
                        \cup (IF i \in external
                              THEN {ExternalName(NumProjects)} ELSE {})]
            IN  /\ projects = Unlinked(packageName)
                /\ stack = WorkList(projects, allDependencies)
    /\ pc = "parse"
    /\ op = "none"
    /\ id = 0
    /\ including = FALSE
    /\ above = FALSE
    /\ below = FALSE
    /\ commandMap = <<>>
    /\ requestingProjects = <<>>
    /\ missingProjects = <<>>
    /\ resultSets = <<>>
    /\ loopIndex = 0
    /\ result = <<>>
    /\ errorMessage = NoError
    /\ exitCode = 0
    /\ modifier = "unset"
    /\ input = NoInput
    /\ flags = NoFlags
    /\ scriptName = NoScript
    /\ selectedProjects = <<>>
    /\ stats = NoStats
    /\ additionalConsumers = <<>>
    /\ executed = <<>>

\* one turn of the inner forEach: one dependency name of one project
LinkDependency ==
    /\ pc = "parse"
    /\ loopIndex < Len(stack)
    /\ LET turn == stack[loopIndex + 1]
       IN  projects' = DoubleLink(projects, turn.project, turn.dependencyName)
    /\ loopIndex' = loopIndex + 1
    /\ UNCHANGED <<pc, op, id, including, above, below, commandMap, stack,
                   requestingProjects, missingProjects, resultSets, result,
                   errorMessage, exitCode>>
    /\ UNCHANGED commandVars

\* return mapProjectNameToProject: the graph the calls run on
Parsed ==
    /\ pc = "parse"
    /\ loopIndex = Len(stack)
    /\ pc' = "idle"
    /\ stack' = <<>>
    /\ loopIndex' = 0
    /\ UNCHANGED <<projects, op, id, including, above, below, commandMap,
                   requestingProjects, missingProjects, resultSets, result,
                   errorMessage, exitCode>>
    /\ UNCHANGED commandVars

----------------------------------------------------------------------------
(* commands.ts: what a project's turn executes *)

\* the text of a command: 'npm install', 'npm update <names>', 'npm version',
\* the script, 'npm publish'
Text(kind, names) == [kind |-> kind, names |-> names]

\* executeForProject that starts the child process whatever isDryRun says
executeForProjectAlways(log, isDryRun, project, text) ==
    Append(log, [project |-> project, text |-> text, execSync |-> TRUE])

\* executeForProject(isDryRun, project, text): a dry run logs the text, any
\* other run hands it to childProcess.execSync in the project's directory
executeForProject(log, isDryRun, project, text) ==
    Append(log, [project |-> project, text |-> text, execSync |-> ~isDryRun])

\* shouldPublish that holds of every project
shouldPublishAlways(ps, project) == TRUE

\* projects with no consumers are not published
shouldPublish(ps, project) == Len(Get(ps, project).consumers) >= 1

prePublish(log, ps, isDryRun, project) ==
    IF ~shouldPublish(ps, project) THEN log
    ELSE executeForProject(log, isDryRun, project, Text("version", <<>>))

publish(log, ps, isDryRun, project) ==
    IF ~shouldPublish(ps, project) THEN log
    ELSE executeForProject(log, isDryRun, project, Text("publish", <<>>))

updateDependencies(log, ps, isDryRun, project, inSet, install) ==
    IF install
    THEN executeForProject(log, isDryRun, project, Text("install", <<>>))
    ELSE LET inside == SelectSeq(Get(ps, project).dependencies,
                                 LAMBDA dependency : dependency \in Range(inSet))
             dependenciesToUpdate ==
                 [k \in 1..Len(inside) |-> Get(ps, inside[k]).package]
         IN  IF Len(dependenciesToUpdate) > 0
             THEN executeForProject(log, isDryRun, project,
                                    Text("update", dependenciesToUpdate))
             ELSE log

\* additionalConsumers.forEach: the consumers outside the selection
RECURSIVE updateConsumers(_, _, _, _, _)
updateConsumers(log, ps, isDryRun, consumers, inSet) ==
    IF consumers = <<>> THEN log
    ELSE updateConsumers(
            updateDependencies(log, ps, isDryRun, Head(consumers), inSet, FALSE),
            ps, isDryRun, Tail(consumers), inSet)

----------------------------------------------------------------------------
(* commands.ts: runCommand(input, context) *)

\* input.flags
Flags == [install : BOOLEAN, dryRun : BOOLEAN, pushpull : BOOLEAN]

\* input.scriptName: null, a script the schema defines, a script defined
\* nowhere
ScriptNames == {NoScript, "build", "missing"}

\* the locals of order() and orderMultiple() once the call has returned
Forgotten ==
    /\ op' = "none"
    /\ id' = 0
    /\ including' = FALSE
    /\ above' = FALSE
    /\ below' = FALSE
    /\ commandMap' = <<>>
    /\ stack' = <<>>
    /\ requestingProjects' = <<>>
    /\ missingProjects' = <<>>
    /\ resultSets' = <<>>
    /\ loopIndex' = 0
    /\ result' = <<>>

\* RunCommandInput without its flags and script name.  projects is "drawn"
\* for an explicit list (its ids are drawn one by one where orderMultiple()
\* comes to them, none at all included), "empty" for no project and "one"
\* where projects[0] is searched from; includeProject, includeAbove and
\* includeBelow are read in the last case only.
Inputs ==
    {[isExplicit |-> TRUE, projects |-> "drawn", includeProject |-> FALSE,
      includeAbove |-> FALSE, includeBelow |-> FALSE],
     [isExplicit |-> FALSE, projects |-> "empty", includeProject |-> FALSE,
      includeAbove |-> FALSE, includeBelow |-> FALSE]}
    \cup [isExplicit : {FALSE}, projects : {"one"}, includeProject : BOOLEAN,
          includeAbove : BOOLEAN, includeBelow : BOOLEAN]

\* the call: the graph is created, the input taken apart.  The flags and
\* the script name are drawn where the loop first reads them (flags.install
\* is read only under flags.pushpull).
RunCommand(in) ==
    /\ pc = "idle"
    /\ input' = in
    /\ pc' = "select"
    /\ UNCHANGED <<projects, op, id, including, above, below, commandMap,
                   stack, requestingProjects, missingProjects, resultSets,
                   loopIndex, result, errorMessage, exitCode>>
    /\ UNCHANGED <<modifier, flags, scriptName, selectedProjects, stats,
                   additionalConsumers, executed>>

\* InputCommand.modifier: a CommandModifier or null
Modifiers == {"to", "from", "above", "below", "all", "null"}

\* parseCommand with 'to' taken as 'from'
parseCommandToAsFrom(m) ==
    [isExplicit |-> m = "null",
     includeProject |-> m \in {"to", "from", "all"},
     includeAbove |-> m \in {"to", "from", "above", "all"},
     includeBelow |-> m \in {"below", "all"}]

\* parseCommand(command): the switch over the modifier
parseCommand(m) ==
    LET switch ==
            CASE m = "to" -> [include |-> TRUE, above |-> FALSE, below |-> TRUE]
              [] m = "from" -> [include |-> TRUE, above |-> TRUE, below |-> FALSE]
              [] m = "above" -> [include |-> FALSE, above |-> TRUE, below |-> FALSE]
              [] m = "below" -> [include |-> FALSE, above |-> FALSE, below |-> TRUE]
              [] m = "all" -> [include |-> TRUE, above |-> TRUE, below |-> TRUE]
              [] OTHER -> [include |-> FALSE, above |-> FALSE, below |-> FALSE]
    IN  [isExplicit |-> m = "null",
         includeProject |-> switch.include,
         includeAbove |-> switch.above,
         includeBelow |-> switch.below]

\* command(graph, commandText): the command line is read into a modifier and
\* ids (one id after a modifier), parsed, and the parsed command is run
Command(m) ==
    /\ pc = "idle"
    /\ modifier' = m
    /\ LET parsedCommand == parseCommand(m)
       IN  input' = [isExplicit |-> parsedCommand.isExplicit,
                     projects |-> IF m = "null" THEN "drawn" ELSE "one",
                     includeProject |-> parsedCommand.includeProject,
                     includeAbove |-> parsedCommand.includeAbove,
                     includeBelow |-> parsedCommand.includeBelow]
    /\ pc' = "select"
    /\ UNCHANGED <<projects, op, id, including, above, below, commandMap,
                   stack, requestingProjects, missingProjects, resultSets,
                   loopIndex, result, errorMessage, exitCode>>
    /\ UNCHANGED <<flags, scriptName, selectedProjects, stats,
                   additionalConsumers, executed>>

\* if (isExplicit): graph.searchMultiple(projects)
SearchMultiple ==
    /\ pc = "select"
    /\ input.isExplicit
    /\ op' = "orderMultiple"
    /\ pc' = "resolve"
    /\ UNCHANGED <<projects, id, including, above, below, commandMap, stack,
                   requestingProjects, missingProjects, resultSets, loopIndex,
                   result, errorMessage, exitCode>>
    /\ UNCHANGED commandVars

\* the selection is made: nothing to do, or the loop is about to start; the
\* command line is of no further use
Begin(selected) ==
    /\ selectedProjects' = selected
    /\ modifier' = "unset"
    /\ IF Len(selected) = 0
       THEN /\ pc' = "returned"
            /\ UNCHANGED <<flags, scriptName>>
       ELSE /\ pc' = "process"
            /\ flags' \in {f \in Flags : f.install => f.pushpull}
            /\ scriptName' \in ScriptNames
    /\ UNCHANGED <<projects, errorMessage, exitCode, input, stats,
                   additionalConsumers, executed>>

\* else if (!projects.length): every project, as the Map holds them
SelectAll ==
    /\ pc = "select"
    /\ ~input.isExplicit
    /\ input.projects = "empty"
    /\ Begin([i \in 1..Len(projects) |-> projects[i].name])
    /\ UNCHANGED <<op, id, including, above, below, commandMap, stack,
                   requestingProjects, missingProjects, resultSets, loopIndex,
                   result>>

\* else: checkIsValid(graph, projects[0]), then graph.search of it
Search(i) ==
    /\ pc = "select"
    /\ ~input.isExplicit
    /\ input.projects = "one"
    /\ id' = i
    /\ IF i \notin Names(projects)
       THEN /\ exitError("identifier was not found or is invalid", i)
            /\ UNCHANGED <<op, including, above, below, commandMap, stack>>
       ELSE /\ op' = "order"
            /\ including' = input.includeProject
            /\ above' = input.includeAbove
            /\ below' = input.includeBelow
            /\ commandMap' = <<[project |-> i, level |-> 0]>>
            /\ stack' = IF input.includeAbove
                        THEN <<[level |-> 0, project |-> i]>>
                        ELSE <<>>
            /\ pc' = "searchUp"
            /\ UNCHANGED <<errorMessage, exitCode>>
    /\ UNCHANGED <<projects, requestingProjects, missingProjects, resultSets,
                   loopIndex, result>>
    /\ UNCHANGED commandVars

\* graph.search or graph.searchMultiple has returned
Selected ==
    /\ pc = "done"
    /\ input # NoInput
    /\ Begin(result)
    /\ Forgotten

\* one turn of selectedProjects.forEach
ProcessProject ==
    /\ pc = "process"
    /\ stats.projectIndex + 1 < Len(selectedProjects)
    /\ LET project == selectedProjects[stats.projectIndex + 2]
           updated ==
               IF flags.pushpull
               THEN prePublish(
                        updateDependencies(executed, projects, flags.dryRun,
                                           project, selectedProjects,
                                           flags.install),
                        projects, flags.dryRun, project)
               ELSE executed
           built ==
               IF scriptName # NoScript
               THEN executeForProject(updated, flags.dryRun, project,
                                      Text("script", <<>>))
               ELSE updated
           outside ==
               SelectSeq(Get(projects, project).consumers,
                         LAMBDA consumer : consumer \notin Range(selectedProjects))
       IN  /\ stats' = [currentProject |-> project,
                        projectIndex |-> stats.projectIndex + 1]
           /\ IF scriptName = "missing"
              THEN /\ executed' = updated
                   /\ exitError("Script name not defined", 0)
                   /\ UNCHANGED additionalConsumers
              ELSE /\ executed' = IF flags.pushpull
                                  THEN publish(built, projects, flags.dryRun,
                                               project)
                                  ELSE built
                   /\ additionalConsumers' =
                          IF flags.pushpull
                          THEN SetAddAll(additionalConsumers, outside)
                          ELSE additionalConsumers
                   /\ UNCHANGED <<pc, errorMessage, exitCode>>
    /\ UNCHANGED <<projects, op, id, including, above, below, commandMap,
                   stack, requestingProjects, missingProjects, resultSets,
                   loopIndex, result>>
    /\ UNCHANGED <<modifier, input, flags, scriptName, selectedProjects>>

\* additionalConsumers.forEach, after the last project
UpdateConsumers ==
    /\ pc = "process"
    /\ stats.projectIndex + 1 = Len(selectedProjects)
    /\ executed' = updateConsumers(executed, projects, flags.dryRun,
                                   additionalConsumers, selectedProjects)
    /\ pc' = "processed"
    /\ UNCHANGED <<projects, op, id, including, above, below, commandMap,
                   stack, requestingProjects, missingProjects, resultSets,
                   loopIndex, result, errorMessage, exitCode>>
    /\ UNCHANGED <<modifier, input, flags, scriptName, selectedProjects,
                   stats, additionalConsumers>>

\* the summary is printed and runCommand returns
CommandReturn ==
    /\ pc = "processed"
    /\ pc' = "returned"
    /\ UNCHANGED <<projects, op, id, including, above, below, commandMap,
                   stack, requestingProjects, missingProjects, resultSets,
                   loopIndex, result, errorMessage, exitCode>>
    /\ UNCHANGED commandVars

----------------------------------------------------------------------------
(* commands.ts: runCommand(input, context), an external command throwing *)

\* the log when the turn of `project` runs through without a throw, and
\* where in it the script and the publish step begin
turnOf(project) ==
    LET updated ==
            IF flags.pushpull
            THEN prePublish(
                     updateDependencies(executed, projects, flags.dryRun,
                                        project, selectedProjects,
                                        flags.install),
                     projects, flags.dryRun, project)
            ELSE executed
        built ==
            IF scriptName = "build"
            THEN executeForProject(updated, flags.dryRun, project,
                                   Text("script", <<>>))
            ELSE updated
    IN  [updated |-> updated,
         built |-> built,
         published |-> IF flags.pushpull /\ scriptName # "missing"
                       THEN publish(built, projects, flags.dryRun, project)
                       ELSE built]

\* the catch block: what it prints from stats and selectedProjects before
\* endExitError()
report(st, selected) ==
    LET hasReachedProject(k) ==
            \E j \in 1..k : selected[j] = st.currentProject
        others == SelectSeq([k \in 1..Len(selected) |-> k],
                            LAMBDA k : selected[k] # st.currentProject)
        completed == SelectSeq(others, LAMBDA k : ~hasReachedProject(k))
        notRun == SelectSeq(others, LAMBDA k : hasReachedProject(k))
    IN  [kind |-> "failed",
         name |-> st.currentProject,
         index |-> st.projectIndex + 1,
         size |-> Len(selected),
         completed |-> [k \in 1..Len(completed) |-> selected[completed[k]]],
         notRun |-> [k \in 1..Len(notRun) |-> selected[notRun[k]]]]

\* the catch block is entered and the process exits
Caught(st) ==
    /\ errorMessage' = report(st, selectedProjects)
    /\ exitCode' = 1
    /\ pc' = "exit"

\* a turn of selectedProjects.forEach in which childProcess.execSync throws:
\* the n-th command of the log is the one that threw
ProcessProjectThrows ==
    /\ pc = "process"
    /\ stats.projectIndex + 1 < Len(selectedProjects)
    /\ ~flags.dryRun
    /\ LET project == selectedProjects[stats.projectIndex + 2]
           turn == turnOf(project)
           outside ==
               SelectSeq(Get(projects, project).consumers,
                         LAMBDA consumer : consumer \notin Range(selectedProjects))
       IN  \E n \in (Len(executed) + 1)..Len(turn.published) :
              /\ executed' = SubSeq(turn.published, 1, n)
              /\ stats' = [currentProject |-> project,
                           projectIndex |-> stats.projectIndex + 1]
              /\ additionalConsumers' =
                     IF n > Len(turn.built)
                     THEN SetAddAll(additionalConsumers, outside)
                     ELSE additionalConsumers
              /\ Caught(stats')
    /\ UNCHANGED <<projects, op, id, including, above, below, commandMap,
                   stack, requestingProjects, missingProjects, resultSets,
                   loopIndex, result>>
    /\ UNCHANGED <<modifier, input, flags, scriptName, selectedProjects>>

\* additionalConsumers.forEach in which childProcess.execSync throws
UpdateConsumersThrows ==
    /\ pc = "process"
    /\ stats.projectIndex + 1 = Len(selectedProjects)
    /\ ~flags.dryRun
    /\ LET updated == updateConsumers(executed, projects, flags.dryRun,
                                      additionalConsumers, selectedProjects)
       IN  \E n \in (Len(executed) + 1)..Len(updated) :
              executed' = SubSeq(updated, 1, n)
    /\ Caught(stats)
    /\ UNCHANGED <<projects, op, id, including, above, below, commandMap,
                   stack, requestingProjects, missingProjects, resultSets,
                   loopIndex, result>>
    /\ UNCHANGED <<modifier, input, flags, scriptName, selectedProjects,
                   stats, additionalConsumers>>

----------------------------------------------------------------------------
(* Specifications *)

NextOrder ==
    \/ \E i \in Names(projects) \cup AbsentIds(projects),
          incl \in BOOLEAN, ab \in BOOLEAN, be \in BOOLEAN :
              CallOrder(i, incl, ab, be)
    \/ SearchUp
    \/ OrderBelow
    \/ SearchDown
    \/ OrderReturn
    \/ NextCall

NextMultiple ==
    \/ CallOrderMultiple
    \/ \E i \in NextIds : ResolveId(i)
    \/ Resolved
    \/ Harvest
    \/ MergeRound
    \/ MultipleReturn
    \/ NextCall

Next == NextOrder \/ NextMultiple

\* calls of order()
SpecOrder == Init /\ [][NextOrder]_vars

\* calls of order(); a call that has begun goes on until it returns or the
\* process ends
SpecOrderFair ==
    /\ Init
    /\ [][NextOrder]_vars
    /\ WF_vars(SearchUp)
    /\ WF_vars(OrderBelow)
    /\ WF_vars(SearchDown)
    /\ WF_vars(OrderReturn)

\* calls of orderMultiple()
SpecMultiple == Init /\ [][NextMultiple]_vars

\* calls of either
Spec == Init /\ [][Next]_vars

InitLimit == Start(SmallGraphs \cup ChainGraphs \cup {WideGraph, CombGraph})

\* calls of orderMultiple(), also on the graph that takes both loops as far
\* as they go
SpecLimit == InitLimit /\ [][NextMultiple]_vars

InitMerge == Start(RingGraphs)

\* calls of orderMultiple() on rings
SpecMerge == InitMerge /\ [][NextMultiple]_vars

NextParse == LinkDependency \/ Parsed

\* the second pass of parseGraph
SpecParse == InitParse /\ [][NextParse]_vars

NextCommand ==
    \/ \E in \in Inputs : RunCommand(in)
    \/ \E m \in Modifiers : Command(m)
    \/ SearchMultiple
    \/ SelectAll
    \/ \E i \in Names(projects) \cup AbsentIds(projects) : Search(i)
    \/ SearchUp
    \/ OrderBelow
    \/ SearchDown
    \/ OrderReturn
    \/ \E i \in NextIds : ResolveId(i)
    \/ Resolved
    \/ Harvest
    \/ MergeRound
    \/ MultipleReturn
    \/ Selected
    \/ ProcessProject
    \/ UpdateConsumers
    \/ CommandReturn

\* the graphs runCommand() is called on: small ones and chains, the package
\* names sorting as the project names do
CommandGraphs ==
    {Configuration([i \in 1..NumProjects |-> i], E) :
        E \in EdgeSets(NumProjects, MaxEdges - 1)}
    \cup {ps \in ChainGraphs : \A i \in 1..Len(ps) : ps[i].package = i}

InitCommand == Start(CommandGraphs)

\* calls of runCommand()
SpecCommand == InitCommand /\ [][NextCommand]_vars

\* calls of runCommand() in which an external command may throw
NextFailure ==
    \/ \E in \in Inputs : RunCommand(in)
    \/ SearchMultiple
    \/ SelectAll
    \/ \E i \in Names(projects) \cup AbsentIds(projects) : Search(i)
    \/ SearchUp
    \/ OrderBelow
    \/ SearchDown
    \/ OrderReturn
    \/ \E i \in NextIds : ResolveId(i)
    \/ Resolved
    \/ Harvest
    \/ MergeRound
    \/ MultipleReturn
    \/ Selected
    \/ ProcessProject
    \/ ProcessProjectThrows
    \/ UpdateConsumers
    \/ UpdateConsumersThrows
    \/ CommandReturn

SpecFailure == InitCommand /\ [][NextFailure]_vars

\* weak fairness of the turns of orderMultiple()'s loops, written out: a turn
\* can be taken exactly when pc is "harvest" or "merge", and every turn
\* changes the state
MultipleGoesOn ==
    \/ []<>(pc \notin {"harvest", "merge"})
    \/ []<><<Harvest \/ MergeRound \/ MultipleReturn>>_vars

InitFair == Start(CommandGraphs \cup {WideGraph})

\* calls of orderMultiple(); a call that has resolved its ids goes on until
\* it returns or the process ends
SpecMultipleFair == InitFair /\ [][NextMultiple]_vars /\ MultipleGoesOn

----------------------------------------------------------------------------
(* The graph relations the properties speak of *)

Consumers(ps, S) == UNION {Range(Get(ps, p).consumers) : p \in S}

Dependencies(ps, S) == UNION {Range(Get(ps, p).dependencies) : p \in S}

RECURSIVE ReachUp(_, _)
ReachUp(ps, S) ==
    LET T == S \cup Consumers(ps, S) IN IF T = S THEN S ELSE ReachUp(ps, T)

RECURSIVE ReachDown(_, _)
ReachDown(ps, S) ==
    LET T == S \cup Dependencies(ps, S) IN IF T = S THEN S ELSE ReachDown(ps, T)

RECURSIVE ReachAny(_, _)
ReachAny(ps, S) ==
    LET T == S \cup Consumers(ps, S) \cup Dependencies(ps, S)
    IN  IF T = S THEN S ELSE ReachAny(ps, T)

\* the projects that depend on p, directly or transitively
Ancestors(ps, p) == ReachUp(ps, Consumers(ps, {p}))

\* the projects p depends on, directly or transitively
Descendants(ps, p) == ReachDown(ps, Dependencies(ps, {p}))

\* the weakly-connected component of p
Component(ps, p) == ReachAny(ps, {p})

Acyclic(ps) == \A p \in Names(ps) : p \notin Ancestors(ps, p)

EdgeSymmetric(ps) ==
    \A a, b \in Names(ps) :
        a \in Range(Get(ps, b).consumers) <=> b \in Range(Get(ps, a).dependencies)

\* a returned sequence puts every direct dependency before its consumer
DirectlyOrdered(ps, r) ==
    \A i, j \in 1..Len(r) :
        r[i] \in Range(Get(ps, r[j]).dependencies) => i < j

\* a returned sequence puts every transitive dependency before its consumer
TransitivelyOrdered(ps, r) ==
    \A i, j \in 1..Len(r) : r[i] \in Descendants(ps, r[j]) => i < j

\* the graph is one the ordering functions are specified for
ValidGraph == Acyclic(projects) /\ EdgeSymmetric(projects)

Returned(f) == pc = "done" /\ op = f

----------------------------------------------------------------------------
(* Claims *)

\* C1: on an acyclic, edge-symmetric graph, for every existing anchor and
\* every combination of including, above and below, the sequence order()
\* returns has every dependency at a strictly smaller index than its consumer.
C1_OrderIsTopological ==
    (Returned("order") /\ ValidGraph) => DirectlyOrdered(projects, result)

\* C1 witness: order() returned four projects of an acyclic graph, the
\* anchor in the middle of them, with a dependency edge between two of them.
C1_Witness ==
    /\ Returned("order") /\ ValidGraph
    /\ including /\ above /\ below
    /\ Len(result) = 4
    /\ result[1] # id /\ result[4] # id

\* C2: on an acyclic, edge-symmetric graph, for every list of existing ids
\* in any order, the sequence orderMultiple() returns has every direct or
\* transitive dependency at a strictly smaller index than its consumer.
C2_MultipleIsTopological ==
    (Returned("orderMultiple") /\ ValidGraph)
        => TransitivelyOrdered(projects, result)

\* C3: whenever orderMultiple() returns, its result holds exactly the
\* distinct projects the ids name, each once; no ids give an empty result.
C3_MultipleReturnsRequested ==
    Returned("orderMultiple") =>
        /\ IsInjective(result)
        /\ Range(result) = Range(requestingProjects)
        /\ Len(result) = Len(requestingProjects)

\* C3 witness: orderMultiple() returned after a merge of overlapping slices
\* of three or more requested projects, a project of the graph not requested.
C3_Witness ==
    /\ Returned("orderMultiple")
    /\ Len(resultSets) = 1
    /\ Len(requestingProjects) >= 3
    /\ Len(requestingProjects) < Len(projects)
    /\ Len(result) > Len(intersect(order(projects, Head(requestingProjects),
                                         TRUE, TRUE, TRUE).result,
                                   requestingProjects))

\* C4 (as claimed): order(anchor, true, true, true) returns exactly the
\* weakly-connected component of the anchor.
C4_ReturnsComponent ==
    (Returned("order") /\ ValidGraph /\ including /\ above /\ below)
        => Range(result) = Component(projects, id)

\* C4 (amended): order(anchor, true, true, true) returns exactly the anchor,
\* the projects that transitively depend on it and the projects it
\* transitively depends on, all of them in the anchor's component.
C4_ReturnsRelatives ==
    (Returned("order") /\ ValidGraph /\ including /\ above /\ below)
        => /\ Range(result) =
                {id} \cup Ancestors(projects, id) \cup Descendants(projects, id)
           /\ Range(result) \subseteq Component(projects, id)
           /\ IsInjective(result)

\* C4 witness: order(anchor, true, true, true) returned ancestors and
\* descendants and left out a project of the anchor's component.
C4_Witness ==
    /\ Returned("order") /\ ValidGraph /\ including /\ above /\ below
    /\ Len(result) = 3
    /\ result[2] = id
    /\ Range(result) # Component(projects, id)

\* C5: on an acyclic, edge-symmetric graph the set order() returns is the
\* anchor iff including, plus its transitive consumers iff above, plus its
\* transitive dependencies iff below, and nothing else.
C5_ReturnsByFlags ==
    (Returned("order") /\ ValidGraph) =>
        Range(result) =
            (IF including THEN {id} ELSE {})
            \cup (IF above THEN Ancestors(projects, id) ELSE {})
            \cup (IF below THEN Descendants(projects, id) ELSE {})

\* C5 witness: order() returned without the anchor and without ancestors
\* that exist, with two descendants.
C5_Witness ==
    /\ Returned("order") /\ ValidGraph
    /\ ~including /\ ~above /\ below
    /\ Ancestors(projects, id) # {}
    /\ Len(result) = 2

\* C6: when a project is reachable from the anchor both through consumer
\* edges and through dependency edges, order() with above and below ends in
\* the error 'is both a consumer and dependency' naming such a project.
C6_ContradictionReported ==
    (/\ op = "order" /\ above /\ below
     /\ pc \in {"done", "exit", "overflow"}
     /\ id \in Names(projects)
     /\ Ancestors(projects, id) \cap Descendants(projects, id) # {})
        => /\ pc = "exit"
           /\ errorMessage.kind = "is both a consumer and dependency"
           /\ errorMessage.name \in
                  Ancestors(projects, id) \cap Descendants(projects, id)

\* C7: order() with an absent id and orderMultiple() reaching an absent id
\* of its list end in the fatal error naming that id, exit code 1, nothing
\* returned, no search or merge done; the process goes no further.
C7_UnknownIdIsFatal ==
    /\ [](/\ (id # 0 /\ id \notin Names(projects)) =>
               /\ pc = "exit"
               /\ exitCode = 1
               /\ errorMessage =
                      [kind |-> IF op = "order" THEN "does not exist"
                                ELSE "is not defined",
                       name |-> id]
               /\ commandMap = <<>> /\ stack = <<>>
               /\ missingProjects = <<>> /\ resultSets = <<>>
               /\ loopIndex = 0 /\ result = <<>>
          /\ errorMessage.kind \in {"does not exist", "is not defined"} =>
               errorMessage.name = id /\ id \notin Names(projects))
    /\ [][pc # "exit"]_vars

\* C7 witness: orderMultiple() failed on an absent id that came after two
\* ids that resolved.
C7_Witness ==
    /\ op = "orderMultiple"
    /\ pc = "exit"
    /\ id \in AbsentIds(projects)
    /\ Len(requestingProjects) = 2

\* C8: on an acyclic, edge-symmetric graph, with ids that all resolve,
\* orderMultiple() never ends in 'Looped too many times'.
C8_NeverLoopsTooManyTimes ==
    (errorMessage.kind = "Looped too many times")
        => ~(op = "orderMultiple" /\ ValidGraph)

\* C10: no step of order() or orderMultiple() changes the projects map or a
\* project's dependencies or consumers, members and iteration order alike.
C10_GraphUnchanged == [][projects' = projects]_vars

\* C10 witness: orderMultiple() returned three or more projects after its
\* calls of order() on a graph with dependencies.
C10_Witness ==
    /\ Returned("orderMultiple")
    /\ Len(result) >= 3
    /\ \E p \in Names(projects) : Len(Get(projects, p).consumers) >= 2

\* the dependency names of the turns of the second pass taken so far
NamedSoFar(name) ==
    {stack[k].dependencyName :
        k \in {j \in 1..loopIndex : stack[j].project = name}}

Processing == pc \in {"process", "processed", "returned"} /\ selectedProjects # <<>>

\* the projects whose turn of the loop has been taken, in the order taken
Processed == SubSeq(selectedProjects, 1, stats.projectIndex + 1)

\* C12: runCommand() for all projects (isExplicit false, no project named)
\* on an acyclic graph selects every project, and no project's turn is taken
\* before the turns of all the projects it depends on.
C12_AllInDependencyOrder ==
    (Processing /\ ~input.isExplicit /\ input.projects = "empty"
        /\ Acyclic(projects)) =>
        /\ Range(selectedProjects) = Names(projects)
        /\ \A k \in 1..Len(Processed) :
              \A d \in Range(Get(projects, Processed[k]).dependencies) :
                  \E j \in 1..(k - 1) : Processed[j] = d


\* the kinds of command executeForProject was called with
ExecutedKinds == {executed[k].text.kind : k \in 1..Len(executed)}

\* C13: with the dry-run flag no call of executeForProject starts a child
\* process, whatever the step (install, update, version, script, publish,
\* update of the consumers outside the selection), in every state of
\* runCommand().
C13_DryRunStartsNoProcess ==
    flags.dryRun => \A k \in 1..Len(executed) : ~executed[k].execSync

\* C13 witness: a dry run with pushpull and a script has returned after
\* coming to an update, a version, a script and a publish step and to the
\* update of a consumer outside the selection.
C13_Witness ==
    /\ pc = "returned"
    /\ flags.dryRun
    /\ {"update", "version", "script", "publish"} \subseteq ExecutedKinds
    /\ \E k \in 1..Len(executed) :
          executed[k].project \notin Range(selectedProjects)


\* the call the selection of a command makes
SearchCalled(f, includeProject, includeAbove, includeBelow) ==
    /\ op = f
    /\ f = "order" =>
          <<including, above, below>>
              = <<includeProject, includeAbove, includeBelow>>

\* C14: a command with the modifier to, from, above, below or all searches
\* with order() and (including, above, below) = (true, false, true),
\* (true, true, false), (false, true, false), (false, false, true),
\* (true, true, true); a command with no modifier is an explicit list and
\* searches with orderMultiple().
C14_ModifierMapping ==
    op # "none" =>
        /\ modifier = "to" => SearchCalled("order", TRUE, FALSE, TRUE)
        /\ modifier = "from" => SearchCalled("order", TRUE, TRUE, FALSE)
        /\ modifier = "above" => SearchCalled("order", FALSE, TRUE, FALSE)
        /\ modifier = "below" => SearchCalled("order", FALSE, FALSE, TRUE)
        /\ modifier = "all" => SearchCalled("order", TRUE, TRUE, TRUE)
        /\ modifier = "null" =>
              input.isExplicit /\ SearchCalled("orderMultiple", FALSE, FALSE, FALSE)

\* C14 witness: the search of a command with the modifier 'to' has returned
\* the anchor after two projects it depends on.
C14_Witness ==
    /\ modifier = "to"
    /\ Returned("order")
    /\ Len(result) = 3
    /\ result[3] = id


\* position of an element in a sequence without repetition
PositionIn(s, x) == CHOOSE k \in 1..Len(s) : s[k] = x

\* s holds its elements in the order r holds them
InOrderOf(s, r) ==
    \A i, j \in 1..Len(s) : i < j => PositionIn(r, s[i]) < PositionIn(r, s[j])

\* the full closure of the anchor the harvest loop is about to pick
NextClosure == order(projects, Head(missingProjects), TRUE, TRUE, TRUE).result

\* C15: the slice a turn of the harvest loop records, intersect(closure,
\* requestingProjects), holds exactly the projects of the closure that are
\* requested, in the order of the closure; intersecting the closure, or the
\* slice, with itself gives it back unchanged.
C15_IntersectKeepsOrderOfFirst ==
    [][(pc = "harvest" /\ resultSets' # resultSets) =>
          LET slice == resultSets'[Len(resultSets')]
          IN  /\ Range(slice) = Range(NextClosure) \cap Range(requestingProjects)
              /\ IsInjective(slice)
              /\ InOrderOf(slice, NextClosure)
              /\ intersect(NextClosure, NextClosure) = NextClosure
              /\ intersect(slice, slice) = slice]_vars

\* C15 witness: the first slice is recorded; it holds two or more projects,
\* fewer than the closure of its anchor, and not in the order they were
\* requested in.
C15_Witness ==
    /\ pc \in {"harvest", "merge"}
    /\ Len(resultSets) >= 1
    /\ LET slice == resultSets[1]
           closure == order(projects, Head(requestingProjects),
                            TRUE, TRUE, TRUE).result
       IN  /\ Len(slice) >= 2
           /\ Len(slice) < Len(closure)
           /\ slice = intersect(closure, requestingProjects)
           /\ slice # SelectSeq(requestingProjects,
                                LAMBDA p : p \in Range(slice))


Max(S) == CHOOSE x \in S : \A y \in S : y <= x

\* the number of edges of the longest path from a up to b through consumers
\* only; b is a or an ancestor of a, the graph is acyclic
RECURSIVE LongestUp(_, _, _)
LongestUp(ps, a, b) ==
    IF a = b THEN 0
    ELSE Max({1 + LongestUp(ps, c, b) :
                 c \in {x \in Range(Get(ps, a).consumers) :
                           b \in ReachUp(ps, {x})}})

\* the same down to b through dependencies only
RECURSIVE LongestDown(_, _, _)
LongestDown(ps, a, b) ==
    IF a = b THEN 0
    ELSE Max({1 + LongestDown(ps, d, b) :
                 d \in {x \in Range(Get(ps, a).dependencies) :
                           b \in ReachDown(ps, {x})}})

\* both searches of order() are through, the anchor is still in the map
SearchesDone == op = "order" /\ pc = "searchDown" /\ stack = <<>>

\* C16: when the searches of order() on an acyclic graph are through, the
\* map holds the anchor at level 0 and nothing else at level 0, every
\* ancestor (if above) at the length of the longest consumer-only path from
\* the anchor, every descendant (if below) at minus the length of the
\* longest dependency-only path, and no other project.
C16_LevelsAreLongestPaths ==
    (SearchesDone /\ Acyclic(projects)) =>
        /\ {commandMap[k].project : k \in 1..Len(commandMap)}
              = {id} \cup (IF above THEN Ancestors(projects, id) ELSE {})
                     \cup (IF below THEN Descendants(projects, id) ELSE {})
        /\ \A k \in 1..Len(commandMap) :
              LET p == commandMap[k].project
                  l == commandMap[k].level
              IN  /\ l = 0 <=> p = id
                  /\ p \in Ancestors(projects, id) =>
                        l = LongestUp(projects, id, p) /\ l > 0
                  /\ p \in Descendants(projects, id) =>
                        l = 0 - LongestDown(projects, id, p) /\ l < 0

\* C16 witness: a consumer of the anchor is also reached through a second
\* consumer path, of two edges, and stands at level 2.
C16_Witness ==
    /\ SearchesDone
    /\ Acyclic(projects)
    /\ \E p \in Range(Get(projects, id).consumers) :
          /\ MapHas(commandMap, p)
          /\ MapGet(commandMap, p) = 2


\* C17: the sequence a merge round puts in the place of the intersecting
\* slices holds the projects of every one of these slices in the order the
\* slice holds them.
C17_MergeKeepsSliceOrders ==
    [][(pc = "merge" /\ resultSets' # resultSets /\ ValidGraph) =>
          LET found == findAnyIntersection(resultSets)
              merged == resultSets'[Len(resultSets')]
          IN  \A j \in Range(found.sets) :
                  /\ Range(resultSets[j]) \subseteq Range(merged)
                  /\ InOrderOf(resultSets[j], merged)]_vars


\* executeForProject was called for `kind` in `project` before call k
ExecutedBefore(k, kind, project) ==
    \E j \in 1..(k - 1) :
        executed[j].text.kind = kind /\ executed[j].project = project

\* C18: with pushpull (and without install) on an acyclic graph, whenever
\* 'npm update' runs in a selected project, every dependency of that project
\* inside the selection has been published before, and no 'npm update' runs
\* in the first project processed.
C18_UpdateAfterPublish ==
    (flags.pushpull /\ ~flags.install /\ Acyclic(projects)) =>
        \A k \in 1..Len(executed) :
            (executed[k].text.kind = "update"
                /\ executed[k].project \in Range(selectedProjects)) =>
                /\ executed[k].project # selectedProjects[1]
                /\ \A d \in Range(Get(projects, executed[k].project).dependencies)
                            \cap Range(selectedProjects) :
                       ExecutedBefore(k, "publish", d)


Abs(x) == IF x < 0 THEN 0 - x ELSE x

\* a depth search of order() has calls pending
Searching == op = "order" /\ pc \in {"searchUp", "searchDown"} /\ stack # <<>>

\* the pending call is for a project that already holds a level at least as
\* far from 0 as the one the call brings
AtLeastAsFar ==
    LET call == Head(stack)
    IN  /\ MapHas(commandMap, call.project)
        /\ MapGet(commandMap, call.project) # 0
        /\ Abs(MapGet(commandMap, call.project)) >= Abs(call.level)

\* C19: on an acyclic graph every call of order() returns, for every anchor
\* and flag combination.  A call of a depth search for a project that
\* already holds a level at least as far from 0 changes nothing and calls
\* no further search; any other call leaves no project at a level nearer to
\* 0 than before, and no level is further from 0 than the number of
\* projects.
C19_OrderTerminates ==
    /\ (op = "order" /\ pc \in {"searchUp", "searchDown"} /\ Acyclic(projects))
           ~> (pc = "done")
    /\ [][(Searching /\ Acyclic(projects)) =>
             /\ AtLeastAsFar =>
                   commandMap' = commandMap /\ stack' = Tail(stack)
             /\ \A k \in 1..Len(commandMap) :
                   LET p == commandMap[k].project
                   IN  /\ MapHas(commandMap', p)
                       /\ Abs(MapGet(commandMap', p)) >= Abs(commandMap[k].level)
                       /\ MapGet(commandMap', p) # commandMap[k].level =>
                             Abs(MapGet(commandMap', p)) > Abs(commandMap[k].level)
             /\ \A k \in 1..Len(commandMap') :
                   Abs(commandMap'[k].level) < Len(projects)]_vars

\* C19 witness: on an acyclic graph a search comes, along a shorter path, to
\* a project that stands at level 2 or further.
C19_Witness ==
    /\ Searching
    /\ Acyclic(projects)
    /\ AtLeastAsFar
    /\ Abs(MapGet(commandMap, Head(stack).project)) >= 2
    /\ Abs(Head(stack).level) = 1


\* p lies on a cycle
OnCycle(ps, p) == p \in Ancestors(ps, p)

\* order() runs for an existing anchor with a direction enabled in which a
\* cycle is reached from the anchor
CycleInDirection ==
    /\ op = "order"
    /\ id \in Names(projects)
    /\ \/ above /\ \E p \in ReachUp(projects, {id}) : OnCycle(projects, p)
       \/ below /\ \E p \in ReachDown(projects, {id}) : OnCycle(projects, p)

\* C20: a call of order() with a direction enabled in which a cycle is
\* reached from the anchor never returns and never reports an error; it
\* recurses until the call stack is exhausted, a level then being as far from
\* 0 as the stack is deep, and a call that comes back to the anchor
\* overwrites the anchor's level 0 and goes on.
C20_CycleRecursesWithoutBound ==
    /\ [](CycleInDirection =>
            /\ pc # "done"
            /\ pc # "exit"
            /\ errorMessage = NoError
            /\ pc = "overflow" =>
                  \E k \in 1..Len(commandMap) :
                      Abs(commandMap[k].level) = MaxLevel)
    /\ CycleInDirection ~> (pc = "overflow")
    /\ [][(/\ Searching
           /\ Head(stack).project = id
           /\ Head(stack).level # 0
           /\ Abs(Head(stack).level) <= MaxLevel
           /\ MapGet(commandMap, id) = 0) =>
              /\ MapGet(commandMap', id) = Head(stack).level
              /\ pc' = pc
              /\ Len(stack') >= Len(stack)]_vars

\* C20 witness: the anchor lies on a cycle of three projects, the search
\* through the consumers has gone round it until the stack was exhausted.
C20_Witness ==
    /\ CycleInDirection
    /\ pc = "overflow"
    /\ above
    /\ OnCycle(projects, id)
    /\ Len(commandMap) = 3
    /\ \A k \in 1..Len(commandMap) : commandMap[k].level >= MaxLevel - 2


\* two of the slices share a project
SlicesShare(sets) ==
    \E i, j \in 1..Len(sets) : i # j /\ Range(sets[i]) \cap Range(sets[j]) # {}

\* C21: on every acyclic graph a call of orderMultiple() that has resolved
\* its ids comes to its end; a harvest turn either leaves the loop through
\* the short-circuit or takes the picked anchor out of the missing projects;
\* a merge round puts one slice in the place of two or more, so the slices
\* get fewer, and the merge loop is left only when no two slices share a
\* project.
C21_MultipleTerminates ==
    /\ (op = "orderMultiple" /\ pc \in {"harvest", "merge"}
            /\ Acyclic(projects)) ~> (pc \in {"done", "exit"})
    /\ [][(op = "orderMultiple" /\ Acyclic(projects)) =>
            /\ pc = "harvest" =>
                  \/ /\ pc' = "merge"
                     /\ Len(resultSets') = 1
                     /\ Range(resultSets'[1]) = Range(requestingProjects)
                  \/ /\ Head(missingProjects) \notin Range(missingProjects')
                     /\ Range(missingProjects') \subseteq Range(missingProjects)
                     /\ Len(resultSets') = Len(resultSets) + 1
            /\ (pc = "merge" /\ resultSets' # resultSets) =>
                  /\ SlicesShare(resultSets)
                  /\ Len(resultSets') < Len(resultSets)
            /\ (pc = "merge" /\ pc' = "done") => ~SlicesShare(resultSets)]_vars

\* C21 witness: on an acyclic graph two harvest turns have recorded slices
\* that share a project, and a merge round has put one slice in their place.
C21_Witness ==
    /\ op = "orderMultiple" /\ pc = "merge" /\ Acyclic(projects)
    /\ loopIndex = 1
    /\ Len(resultSets) = 1
    /\ Len(requestingProjects) >= 3


\* C22: a turn of the harvest loop ends in the loop-limit error exactly when
\* it is the 21st turn that records a slice, whether or not it empties the
\* missing projects; in the loop the turns taken and the slices recorded are
\* the same number, at most 20, and no turn that leaves 20 or fewer slices
\* raises the error.
C22_HarvestLimit ==
    /\ []((op = "orderMultiple" /\ pc = "harvest") =>
            loopIndex = Len(resultSets) /\ loopIndex <= LOOP_SAFETY)
    /\ [][(op = "orderMultiple" /\ pc = "harvest") =>
            /\ errorMessage'.kind = "Looped too many times"
                  <=> /\ loopIndex = LOOP_SAFETY
                      /\ Len(resultSets') = LOOP_SAFETY + 1
            /\ errorMessage'.kind = "Looped too many times"
                  => pc' = "exit" /\ exitCode' = 1 /\ loopIndex' = LOOP_SAFETY + 1
            /\ Len(resultSets') <= LOOP_SAFETY
                  => errorMessage'.kind # "Looped too many times"]_vars

\* C22 witness: the 21st turn has recorded the 21st slice and emptied the
\* missing projects, and the call has ended in the loop-limit error.
C22_Witness ==
    /\ op = "orderMultiple" /\ pc = "exit"
    /\ errorMessage.kind = "Looped too many times"
    /\ Len(resultSets) = LOOP_SAFETY + 1
    /\ missingProjects = <<>>


\* the full closure of the first requested project
FirstClosure ==
    order(projects, Head(requestingProjects), TRUE, TRUE, TRUE).result

\* C23: when the full closure of the first requested project holds every
\* requested project, orderMultiple() returns the requested projects in the
\* order the closure has them, from that one slice, no merge round done.
C23_ShortCircuit ==
    (/\ Returned("orderMultiple")
     /\ requestingProjects # <<>>
     /\ Range(requestingProjects) \subseteq Range(FirstClosure))
        => /\ result = SelectSeq(FirstClosure,
                                 LAMBDA p : p \in Range(requestingProjects))
           /\ resultSets = <<result>>
           /\ missingProjects = requestingProjects
           /\ loopIndex = 0

\* C23 witness: three projects were requested, the closure of the first
\* holds them and a fourth project, and they are returned in another order
\* than requested.
C23_Witness ==
    /\ Returned("orderMultiple")
    /\ Len(requestingProjects) = 3
    /\ Range(requestingProjects) \subseteq Range(FirstClosure)
    /\ Len(FirstClosure) = 4
    /\ result # requestingProjects


\* no requested project is an ancestor or a descendant of another
PairwiseUnrelated ==
    \A a, b \in Range(requestingProjects) :
        a # b => a \notin Ancestors(projects, b) \cup Descendants(projects, b)

\* C24: when the requested projects are pairwise unrelated and at most 20,
\* orderMultiple() does not end in an error of its loops or of order(), and
\* it returns the requested projects in the order of their first occurrence
\* in ids, one slice for each, no merge round done.
C24_UnrelatedInIdsOrder ==
    (/\ op = "orderMultiple"
     /\ PairwiseUnrelated
     /\ Len(requestingProjects) <= LOOP_SAFETY)
        => /\ errorMessage.kind \notin
                  {"Looped too many times", "is both a consumer and dependency"}
           /\ pc = "done" =>
                  /\ result = requestingProjects
                  /\ loopIndex = 0
                  /\ Len(requestingProjects) > 1 =>
                        resultSets =
                            [k \in 1..Len(requestingProjects) |->
                                <<requestingProjects[k]>>]

\* C24 witness: two unrelated projects of one component, requested the later
\* before the earlier, are returned as requested.
C24_Witness ==
    /\ Returned("orderMultiple")
    /\ PairwiseUnrelated
    /\ Len(requestingProjects) = 2
    /\ requestingProjects[1] > requestingProjects[2]
    /\ requestingProjects[2] \in Component(projects, requestingProjects[1])
    /\ result = requestingProjects


\* what order() returns for the anchor and the directions of the running
\* call, the anchor included or not
OrderOfCall(incl) == order(projects, id, incl, above, below).result

\* C25: for the graph, anchor and directions of a call of order() that
\* returns, the result without the anchor is the result with the anchor, the
\* anchor taken out and nothing else moved; the anchor stands once in the
\* result with it; with neither direction the two results are the empty
\* sequence and the anchor alone.
C25_ExcludingRemovesAnchorOnly ==
    Returned("order") =>
        /\ result = OrderOfCall(including)
        /\ OrderOfCall(FALSE) =
               SelectSeq(OrderOfCall(TRUE), LAMBDA p : p # id)
        /\ Len(OrderOfCall(TRUE)) = Len(OrderOfCall(FALSE)) + 1
        /\ (~above /\ ~below) =>
               OrderOfCall(FALSE) = <<>> /\ OrderOfCall(TRUE) = <<id>>

\* C25 witness: order() returned without the anchor a consumer and a
\* dependency of it, the anchor standing between them when included.
C25_Witness ==
    /\ Returned("order")
    /\ ~including /\ above /\ below
    /\ Len(result) = 2
    /\ OrderOfCall(TRUE) = <<result[1], id, result[2]>>


\* where the log holds a command of a kind run in a project
EntriesOf(project, kind) ==
    {k \in 1..Len(executed) :
        executed[k].project = project /\ executed[k].text.kind = kind}

\* C26: in runCommand() 'npm version' and 'npm publish' run only with
\* pushpull, only in projects whose turn was taken and that have a consumer;
\* no such command ever runs in a project without consumers; a project with
\* a consumer whose turn is through was versioned once and published once,
\* the version before and the publish after its script; the project whose
\* script is not defined was versioned and the process ended there.
C26_PublishOnlyWithConsumers ==
    /\ \A k \in 1..Len(executed) :
          executed[k].text.kind \in {"version", "publish"} =>
              /\ flags.pushpull
              /\ executed[k].project \in Range(Processed)
              /\ Len(Get(projects, executed[k].project).consumers) >= 1
    /\ flags.pushpull =>
          \A j \in 1..Len(Processed) :
              LET project  == Processed[j]
                  versions == EntriesOf(project, "version")
                  scripts  == EntriesOf(project, "script")
                  publishes == EntriesOf(project, "publish")
                  failed   == pc = "exit" /\ j = Len(Processed)
              IN  IF Len(Get(projects, project).consumers) = 0
                  THEN versions = {} /\ publishes = {}
                  ELSE /\ Cardinality(versions) = 1
                       /\ Cardinality(scripts) =
                              IF scriptName = NoScript \/ failed THEN 0 ELSE 1
                       /\ Cardinality(publishes) = IF failed THEN 0 ELSE 1
                       /\ \A v \in versions : \A q \in scripts \cup publishes :
                              v < q
                       /\ \A q \in scripts : \A r \in publishes : q < r

\* C26 witness: a run with pushpull and a script is through with a project
\* that has a consumer and with a project that has none.
C26_Witness ==
    /\ pc = "processed"
    /\ flags.pushpull
    /\ scriptName = "build"
    /\ \E a, b \in Range(selectedProjects) :
          /\ Len(Get(projects, a).consumers) >= 1
          /\ Len(Get(projects, b).consumers) = 0
          /\ EntriesOf(a, "publish") # {}
          /\ EntriesOf(b, "script") # {}


\* the projects the slices hold
UnionOf(sets) == UNION {Range(sets[k]) : k \in 1..Len(sets)}

\* C27: when the harvest loop is through, the slices hold together exactly
\* the requested projects, and every merge round keeps it so: the merged
\* slice holds exactly the projects of the slices it replaces, each once, and
\* the other slices stay.
C27_MergeKeepsUnion ==
    /\ []((op = "orderMultiple" /\ pc = "merge") =>
            UnionOf(resultSets) = Range(requestingProjects))
    /\ [][(op = "orderMultiple" /\ pc = "merge" /\ resultSets' # resultSets) =>
            LET found     == findAnyIntersection(resultSets)
                replaced  == [j \in 1..Len(found.sets) |->
                                 resultSets[found.sets[j]]]
                mergedSet == resultSets'[Len(resultSets')]
            IN  /\ Len(replaced) >= 2
                /\ Range(mergedSet) = UnionOf(replaced)
                /\ IsInjective(mergedSet)
                /\ Len(resultSets') = Len(resultSets) - Len(replaced) + 1
                /\ \A k \in 1..Len(resultSets) :
                      k \notin Range(found.sets) =>
                          \E m \in 1..(Len(resultSets') - 1) :
                              resultSets'[m] = resultSets[k]
                /\ UnionOf(resultSets') = UnionOf(resultSets)]_vars

\* C27 witness: a merge round has put one slice of four projects in the
\* place of two slices that shared two or more projects.
C27_Witness ==
    /\ op = "orderMultiple" /\ pc = "merge"
    /\ loopIndex = 1
    /\ Len(resultSets) = 1
    /\ Len(resultSets[1]) = 4
    /\ LET first  == intersect(FirstClosure, requestingProjects)
       IN  /\ Len(first) = 3
           /\ Len(requestingProjects) = 4


\* the anchor the k-th turn of the harvest loop picked: the first requested
\* project that none of the earlier slices holds
AnchorOf(k) ==
    Head(SelectSeq(requestingProjects,
                   LAMBDA p : p \notin UnionOf(SubSeq(resultSets, 1, k - 1))))

\* the turn of the harvest loop that is being taken leaves through the
\* short-circuit
ShortCircuits ==
    pc = "harvest" /\ pc' = "merge" /\ missingProjects' = missingProjects

\* C28: in the harvest loop on an acyclic, edge-symmetric graph, the picked
\* anchor is in no slice recorded before, the slice recorded for it holds it
\* and none of the anchors picked before, every recorded slice holds exactly
\* one anchor, its own, and the short-circuit is taken in the first turn
\* only, when no slice is recorded yet.
C28_OneAnchorInEachSlice ==
    /\ []((/\ op = "orderMultiple" /\ ValidGraph
           /\ \/ pc = "harvest"
              \/ pc = "merge" /\ loopIndex = 0 /\ missingProjects = <<>>) =>
            \A k \in 1..Len(resultSets) :
                {j \in 1..Len(resultSets) : AnchorOf(j) \in Range(resultSets[k])}
                    = {k})
    /\ [][(op = "orderMultiple" /\ pc = "harvest" /\ ValidGraph) =>
            LET anchor == Head(missingProjects)
                slice  == resultSets'[Len(resultSets')]
            IN  /\ anchor \notin UnionOf(resultSets)
                /\ anchor \in Range(slice)
                /\ \A k \in 1..Len(resultSets) : AnchorOf(k) \notin Range(slice)
                /\ ShortCircuits => resultSets = <<>> /\ loopIndex = 0
                /\ ~ShortCircuits => resultSets' = Append(resultSets, slice)]_vars

\* C28 witness: on an acyclic graph two turns of the harvest loop have
\* recorded two slices that share a project, each holding its own anchor only.
C28_Witness ==
    /\ op = "orderMultiple" /\ pc = "merge" /\ ValidGraph
    /\ loopIndex = 0
    /\ Len(resultSets) = 2
    /\ SlicesShare(resultSets)
    /\ AnchorOf(1) \notin Range(resultSets[2])
    /\ AnchorOf(2) \notin Range(resultSets[1])


\* the command that threw: the last one of the log
Failed == pc = "exit" /\ errorMessage.kind = "failed"

\* C29: when an external command throws in runCommand(), the report names
\* the project in whose directory the command was running, lists before it
\* exactly the projects whose turn is through and after it exactly the
\* projects whose turn has not begun, the update of the consumers outside
\* the selection included.
C29_FailureReport ==
    Failed =>
        LET thrown  == executed[Len(executed)]
            inTurn  == thrown.project \in Range(selectedProjects)
            through == IF inTurn THEN stats.projectIndex
                       ELSE stats.projectIndex + 1
        IN  /\ errorMessage.name = thrown.project
            /\ errorMessage.completed = SubSeq(selectedProjects, 1, through)
            /\ errorMessage.notRun =
                   SubSeq(selectedProjects, stats.projectIndex + 2,
                          Len(selectedProjects))


\* C30: the merge loop never ends in the loop-limit error: it is entered
\* with at most 20 slices, every round leaves fewer slices than it found,
\* so rounds made and slices left are together at most 20 and at most 19
\* rounds are made.
C30_MergeLimitNeverFires ==
    /\ []((op = "orderMultiple" /\ pc = "merge") =>
            /\ Len(resultSets) >= 1
            /\ loopIndex + Len(resultSets) <= LOOP_SAFETY
            /\ loopIndex <= LOOP_SAFETY - 1)
    /\ [][(op = "orderMultiple" /\ pc = "merge") =>
            /\ pc' # "exit"
            /\ errorMessage'.kind # "Looped too many times"
            /\ resultSets' # resultSets =>
                  /\ Len(resultSets') < Len(resultSets)
                  /\ loopIndex' = loopIndex + 1]_vars

\* C30 witness: the harvest loop has recorded 20 slices, each sharing a
\* project with the next, and the merge loop has returned after 19 rounds.
C30_Witness ==
    /\ Returned("orderMultiple")
    /\ loopIndex = LOOP_SAFETY - 1
    /\ Len(resultSets) = 1
    /\ Len(result) = 2 * LOOP_SAFETY - 1


====
